---- MODULE Spec2Model ----
(***************************************************************************)
(* GitHub trending extension: the fetch scheduler (fetchTrendingRepos,     *)
(* fetchMultipleConcurrent, fetchWithRetry) of src/data-fetcher.js and its *)
(* older copy in src/app.js, and the in-memory TTL cache of                *)
(* src/cache-manager.js.                                                   *)
(*                                                                         *)
(* JavaScript runs these async functions on one thread: a step of the      *)
(* model is the synchronous code between two suspension points (an await   *)
(* that has to wait, or the settlement of a network request).              *)
(***************************************************************************)
EXTENDS Integers, Sequences, FiniteSets, TLC

VARIABLES
    impl,              \* which copy of the scheduler runs: "DataFetcher" (data-fetcher.js) or "app" (app.js)
    concurrencyLimit,  \* the concurrencyLimit argument, passed unchanged down the retry recursion
    retryRounds,       \* the retryCount argument of the outermost fetchWithRetry call
    stack,             \* call stack of fetchWithRetry activations, outermost first
    hist,              \* history: per position of the outermost input, the result of each of its own fetches
    attempts,          \* history: per position of the outermost input, the fetches started for it
    calls,             \* the fetchTrendingRepos calls made one by one (outside a batch), in call order
    cache,             \* CacheManager.cache: the Map from key string to {data, timestamp, ttl}
    now,               \* Date.now()
    lastFetch,         \* history: the single fetchTrendingRepos call that settled in the step just taken, if any
    probe,             \* history: the getValid or set call made in the step just taken, if any
    reads,             \* the fetchWithCache calls made, in call order
    html,              \* the document handed to parseTrendingHTML: its article.Box-row elements, in order
    parsed,            \* what parseTrendingHTML(html) did, once it has been called
    languages,         \* TrendingApp.languages: null (Overall Trending) first, then the selected languages
    preload,           \* where a preloadWeeklyMonthlyData call stands
    container,         \* the children of #trending-container: the sections, in page order
    sectionTimeRanges, \* TrendingApp.sectionTimeRanges: Map from section key to time range
    fetches,           \* the fetches started for sections and not yet settled, in start order
    clicks,            \* history: the clicks made so far
    lastUI,            \* history: the section fetch that completed in the step just taken, if any
    loads              \* completedLoads and totalLanguages of displayTrendingRepos, and the timers it set

batchVars == <<concurrencyLimit, retryRounds, stack, hist, attempts>>
cacheVars == <<cache, now>>

parseVars == <<html, parsed>>
preloadVars == <<languages, preload>>

uiVars == <<container, sectionTimeRanges, fetches, clicks, lastUI, loads>>

appVars == <<reads, parseVars, preloadVars, uiVars>>

vars == <<impl, batchVars, calls, cacheVars, lastFetch, probe, appVars>>

-----------------------------------------------------------------------------
(* Bounds of the model *)

MaxReq == 3       \* longest request list handed to the scheduler
MaxLimit == 2     \* largest concurrencyLimit
MaxRetry == 1     \* largest retryCount
MaxRepos == 2     \* records on a full page
MaxCalls == 2     \* single fetchTrendingRepos calls made in a run
MaxTicks == 1     \* default TTLs the clock advances by while single fetches run
MaxReads == 2     \* fetchWithCache calls made in a run
MaxAge == 1       \* cache calls: largest clock reading, and largest ttl, tried

(* Program constants *)

defaultTTL == 600000      \* cache-manager.js:7, 10 * 60 * 1000 ms

Null == "NULL"            \* JavaScript null: the language of the overall trending feed

-----------------------------------------------------------------------------
(* Inputs *)

Languages == {Null, "Rust"}
TimeRanges == {"weekly", "monthly"}

Request(l, t) == [language |-> l, timeRange |-> t]

\* the requests a caller can put in a list
RequestPool == {Request(Null, "weekly"), Request("Rust", "weekly")}

SeqsUpTo(S, n) == UNION {[1..k -> S] : k \in 0..n}

\* page sizes tried: a page without entries and a full page
PageSizes == {0, MaxRepos}

\* what the network does to one request
NetOutcomes ==
    {[kind |-> "page", n |-> k] : k \in PageSizes}
        \cup {[kind |-> k, n |-> 0] : k \in {"http", "transport", "timeout", "parse"}}

\* the records parsed from a page with n entries, in document order
Records(n) == [i \in 1..n |-> i]

-----------------------------------------------------------------------------
(* CacheManager, src/cache-manager.js *)

generateKey(language, timeRange) ==
    (IF language = Null \/ language = "" THEN "all" ELSE language) \o "-" \o timeRange

NoCache == [k \in {} |-> 0]

Has(c, language, timeRange) == generateKey(language, timeRange) \in DOMAIN c

CacheGet(c, language, timeRange) == c[generateKey(language, timeRange)]

\* a set that updates an existing entry in place, keeping its timestamp
CacheSetInPlace(c, language, timeRange, data, ttl, t) ==
    LET key == generateKey(language, timeRange) IN
    [k \in DOMAIN c \cup {key} |->
        IF k = key
        THEN [data |-> data, timestamp |-> IF key \in DOMAIN c THEN c[key].timestamp ELSE t,
              ttl |-> ttl]
        ELSE c[k]]

\* this.cache.set(key, {data, timestamp: Date.now(), ttl})
CacheSet(c, language, timeRange, data, ttl, t) ==
    LET key == generateKey(language, timeRange) IN
    [k \in DOMAIN c \cup {key} |->
        IF k = key THEN [data |-> data, timestamp |-> t, ttl |-> ttl] ELSE c[k]]

\* an optional argument or value: <<>> when it is null or undefined, <<v>> otherwise
None == <<>>
Some(v) == <<v>>

\* JavaScript truthiness of an optional number: null, undefined and 0 are falsy
Truthy(opt) == opt # None /\ opt[1] # 0

\* set(language, timeRange, data, ttl = this.defaultTTL): the default applies when ttl is not passed
set(c, language, timeRange, data, ttlArg, t) ==
    CacheSet(c, language, timeRange, data, IF ttlArg = None THEN defaultTTL ELSE ttlArg[1], t)

\* get(language, timeRange): the entry, or undefined
get(c, language, timeRange) ==
    IF Has(c, language, timeRange) THEN Some(CacheGet(c, language, timeRange)) ELSE None

\* the ttl isValid compares against: customTTL || cacheEntry.ttl || this.defaultTTL
EffectiveTTL(e, customTTL) ==
    IF Truthy(customTTL) THEN customTTL[1]
    ELSE IF e.ttl # 0 THEN e.ttl
    ELSE defaultTTL

\* a validity test that still accepts an entry exactly as old as its ttl
isValidInclusive(cacheEntry, customTTL, t) ==
    IF cacheEntry = None THEN FALSE
    ELSE (t - cacheEntry[1].timestamp) <= EffectiveTTL(cacheEntry[1], customTTL)

isValid(cacheEntry, customTTL, t) ==
    IF cacheEntry = None THEN FALSE
    ELSE (t - cacheEntry[1].timestamp) < EffectiveTTL(cacheEntry[1], customTTL)

\* getValid(language, timeRange, customTTL): the data, or null
getValid(c, language, timeRange, customTTL, t) ==
    LET cacheEntry == get(c, language, timeRange) IN
    IF isValid(cacheEntry, customTTL, t) THEN Some(cacheEntry[1].data) ELSE None

-----------------------------------------------------------------------------
(* parseTrendingHTML, src/data-fetcher.js:11 *)
(* A text is a sequence of characters. Of an article only the title link is modelled: *)
(* every other field of a record is read with "?." and a default and cannot throw.    *)

MaxEntries == 2   \* most article elements in a document

\* String.prototype.trim(), for the blank as the only white space
RECURSIVE TrimLeft(_)
TrimLeft(text) == IF text # <<>> /\ Head(text) = " " THEN TrimLeft(Tail(text)) ELSE text

RECURSIVE TrimRight(_)
TrimRight(text) ==
    IF text # <<>> /\ text[Len(text)] = " " THEN TrimRight(SubSeq(text, 1, Len(text) - 1)) ELSE text

Trim(text) == TrimRight(TrimLeft(text))

\* text.split('/'): the pieces between the separators, at least one
RECURSIVE Split(_)
Split(text) ==
    LET at == {i \in 1..Len(text) : text[i] = "/"} IN
    IF at = {} THEN <<text>>
    ELSE LET first == CHOOSE i \in at : \A j \in at : i <= j IN
         <<SubSeq(text, 1, first - 1)>> \o Split(SubSeq(text, first + 1, Len(text)))

\* a span of an article: the tokens of its class attribute and its trimmed text
Span(classes, text) == [classes |-> classes, text |-> text]

\* the span article.querySelector(selector) returns: the first in document order
\* of those that match (hits, their positions), None when there is none
FirstSpan(spans, hits) ==
    IF hits = {} THEN None ELSE Some(spans[CHOOSE i \in hits : \A j \in hits : i <= j])

\* String.prototype.toLowerCase, on the letters that occur in the texts tried
LowerCase(c) ==
    CASE c = "S" -> "s" [] c = "T" -> "t" [] c = "A" -> "a" [] c = "R" -> "r"
      [] c = "O" -> "o" [] c = "D" -> "d" [] c = "Y" -> "y" [] c = "H" -> "h"
      [] c = "I" -> "i" [] c = "W" -> "w" [] c = "E" -> "e" [] c = "K" -> "k"
      [] c = "M" -> "m" [] c = "N" -> "n" [] OTHER -> c

toLowerCase(text) == [i \in 1..Len(text) |-> LowerCase(text[i])]

\* text.includes(part)
Includes(text, part) ==
    \E i \in 1..(Len(text) - Len(part) + 1) : SubSeq(text, i, i + Len(part) - 1) = part

\* the callback of the fourth locator, data-fetcher.js:43-51
SaysStars(span) ==
    LET text == toLowerCase(span.text) IN
    \/ Includes(text, <<"s", "t", "a", "r", "s", " ", "t", "o", "d", "a", "y">>)
    \/ Includes(text, <<"s", "t", "a", "r", "s", " ", "t", "h", "i", "s", " ", "w", "e", "e", "k">>)
    \/ Includes(text, <<"s", "t", "a", "r", "s", " ", "t", "h", "i", "s", " ", "m", "o", "n", "t", "h">>)
    \/ Includes(text, <<"s", "t", "a", "r", " ", "t", "o", "d", "a", "y">>)
    \/ Includes(text, <<"s", "t", "a", "r", " ", "t", "h", "i", "s", " ", "w", "e", "e", "k">>)
    \/ Includes(text, <<"s", "t", "a", "r", " ", "t", "h", "i", "s", " ", "m", "o", "n", "t", "h">>)

\* the four locators of the period-stars element, in their order; the first that
\* finds an element decides, whatever its text
periodStarsElement(spans) ==
    LET first == FirstSpan(spans, {i \in 1..Len(spans) : {"d-inline-block", "float-sm-right"} \subseteq spans[i].classes})
        second == FirstSpan(spans, {i \in 1..Len(spans) : "float-sm-right" \in spans[i].classes})
        third == FirstSpan(spans, {i \in 1..Len(spans) : \E c \in spans[i].classes : c \in {"float-sm-right", "float-right"}})
        fourth == FirstSpan(spans, {i \in 1..Len(spans) : SaysStars(spans[i])})
    IN IF first # None THEN first
       ELSE IF second # None THEN second
       ELSE IF third # None THEN third
       ELSE fourth

Digits == {"0", "1", "2", "3", "4", "5", "6", "7", "8", "9"}

DigitValue(c) ==
    CASE c = "0" -> 0 [] c = "1" -> 1 [] c = "2" -> 2 [] c = "3" -> 3 [] c = "4" -> 4
      [] c = "5" -> 5 [] c = "6" -> 6 [] c = "7" -> 7 [] c = "8" -> 8 [] c = "9" -> 9

\* parseInt(digits.replace(/,/g, '')), for a text of digits and commas
RECURSIVE parseInt(_)
parseInt(text) ==
    IF text = <<>> THEN 0
    ELSE IF text[Len(text)] = "," THEN parseInt(SubSeq(text, 1, Len(text) - 1))
    ELSE 10 * parseInt(SubSeq(text, 1, Len(text) - 1)) + DigitValue(text[Len(text)])

\* the last position of the longest run, from position i on, of characters of the
\* set chars; i - 1 when there is none
RunEnd(text, i, chars) ==
    LET stops == {j \in i..Len(text) : text[j] \notin chars} IN
    IF stops = {} THEN Len(text) ELSE (CHOOSE j \in stops : \A k \in stops : j <= k) - 1

\* the phrases of the second group of the pattern
PeriodPhrases == {<<"t", "o", "d", "a", "y">>, <<"t", "h", "i", "s", " ", "w", "e", "e", "k">>, <<"t", "h", "i", "s", " ", "m", "o", "n", "t", "h">>}

\* /(\d+(?:,\d+)*)\s+stars?\s+(today|this week|this month)/i tried at position i:
\* the two groups as they stand in the text, or None
MatchAt(text, i) ==
    LET numEnd == RunEnd(text, i, Digits \cup {","})
        num == SubSeq(text, i, numEnd)
        numOk == /\ num # <<>>
                 /\ num[1] \in Digits
                 /\ num[Len(num)] \in Digits
                 /\ \A k \in 1..(Len(num) - 1) : ~(num[k] = "," /\ num[k + 1] = ",")
        gapEnd == RunEnd(text, numEnd + 1, {" "})
        word == toLowerCase(SubSeq(text, gapEnd + 1, gapEnd + 4))
        wordEnd == IF gapEnd + 5 <= Len(text) /\ LowerCase(text[gapEnd + 5]) = "s"
                   THEN gapEnd + 5 ELSE gapEnd + 4
        gap2End == RunEnd(text, wordEnd + 1, {" "})
        phrases == {ph \in PeriodPhrases :
                       /\ gap2End + Len(ph) <= Len(text)
                       /\ toLowerCase(SubSeq(text, gap2End + 1, gap2End + Len(ph))) = ph}
    IN IF /\ numOk
          /\ gapEnd > numEnd
          /\ gapEnd + 4 <= Len(text)
          /\ word = <<"s", "t", "a", "r">>
          /\ gap2End > wordEnd
          /\ phrases # {}
       THEN LET ph == CHOOSE q \in phrases : TRUE IN
            Some([count |-> num, range |-> SubSeq(text, gap2End + 1, gap2End + Len(ph))])
       ELSE None

\* periodStarsText.match(...): the leftmost match, None for null
periodStarsMatch(text) ==
    LET starts == {i \in 1..Len(text) : MatchAt(text, i) # None} IN
    IF starts = {} THEN None
    ELSE MatchAt(text, CHOOSE i \in starts : \A j \in starts : i <= j)

\* data-fetcher.js:32-58: period_stars and period_range of an article
PeriodStars(spans) ==
    LET element == periodStarsElement(spans)
        periodStarsText == IF element # None THEN element[1].text ELSE <<>>
        match == periodStarsMatch(periodStarsText)
    IN IF match # None
       THEN [period_stars |-> parseInt(match[1].count), period_range |-> match[1].range]
       ELSE [period_stars |-> 0, period_range |-> <<>>]

\* an article element with spans: its title text and its spans in document order
ArticleWith(title, spans) == [title |-> title, spans |-> spans]

\* an article element: the text of its "h2.h3 a" link, None when it has no such link
Article(title) == ArticleWith(title, <<>>)

PeriodSpan == {"d-inline-block", "float-sm-right"}

\* the spans tried, on an article titled "a/b": the period span of each time range,
\* a period text in capitals, a plain span found by its text only, a period span
\* behind another floated span, and spans without a period text
SpanLists ==
    { <<Span(PeriodSpan, <<"4", "2", " ", "s", "t", "a", "r", "s", " ", "t", "o", "d", "a", "y">>)>>,
      <<Span({"float-sm-right"}, <<"1", " ", "s", "t", "a", "r", " ", "t", "h", "i", "s", " ", "w", "e", "e", "k">>)>>,
      <<Span({"float-right"}, <<"1", ",", "0", "2", "4", " ", "s", "t", "a", "r", "s", " ", "t", "h", "i", "s", " ", "m", "o", "n", "t", "h">>)>>,
      <<Span(PeriodSpan, <<"7", " ", "S", "t", "a", "r", "s", " ", "T", "o", "d", "a", "y">>)>>,
      <<Span({}, <<"B", "u", "i", "l", "t", " ", "b", "y">>), Span({}, <<"4", "2", " ", "s", "t", "a", "r", "s", " ", "t", "o", "d", "a", "y">>)>>,
      <<Span({"float-sm-right"}, <<"B", "u", "i", "l", "t", " ", "b", "y">>), Span(PeriodSpan, <<"4", "2", " ", "s", "t", "a", "r", "s", " ", "t", "o", "d", "a", "y">>)>>,
      <<Span(PeriodSpan, <<"B", "u", "i", "l", "t", " ", "b", "y">>), Span({}, <<"4", "2", " ", "s", "t", "a", "r", "s", " ", "t", "o", "d", "a", "y">>)>>,
      <<Span({"float-right"}, <<"s", "t", "a", "r", "s", " ", "t", "o", "d", "a", "y">>)>>,
      <<Span({}, <<"B", "u", "i", "l", "t", " ", "b", "y">>)>> }

\* title texts tried: "a/b", "b/a", " a / b ", "a/b/c", "a" , "/" and ""
TitleTexts ==
    { <<"a", "/", "b">>, <<"b", "/", "a">>, <<" ", "a", " ", "/", " ", "b", " ">>,
      <<"a", "/", "b", "/", "c">>, <<"a">>, <<"/">>, <<>> }

Articles ==
    {Article(Some(text)) : text \in TitleTexts} \cup {Article(None)}
        \cup {ArticleWith(Some(<<"a", "/", "b">>), spans) : spans \in SpanLists}

Documents == UNION {[1..n -> Articles] : n \in 0..MaxEntries}

\* the callback of articles.map: the record of one article, or the TypeError thrown by
\* titleElement.textContent (no title link) or by repo.trim() (no second piece)
ParseArticle(article) ==
    IF article.title = None THEN [threw |-> TRUE, record |-> <<>>]
    ELSE LET pieces == Split(Trim(article.title[1]))
             owner == pieces[1]
         IN IF Len(pieces) < 2 THEN [threw |-> TRUE, record |-> <<>>]
            ELSE [threw |-> FALSE,
                  record |-> <<[full_name |-> Trim(owner) \o <<"/">> \o Trim(pieces[2]),
                                owner |-> Trim(owner),
                                period_stars |-> PeriodStars(article.spans).period_stars,
                                period_range |-> PeriodStars(article.spans).period_range]>>]

\* a parser that leaves out a record equal to an earlier one
parseTrendingHTMLDistinct(doc) ==
    LET all == [i \in 1..Len(doc) |-> ParseArticle(doc[i])]
        keep == SelectSeq([i \in 1..Len(doc) |-> i],
                          LAMBDA i : \A j \in 1..(i - 1) : all[j] # all[i])
    IN IF \E i \in 1..Len(doc) : all[i].threw
       THEN [state |-> "threw", records |-> <<>>]
       ELSE [state |-> "returned", records |-> [k \in 1..Len(keep) |-> all[keep[k]].record[1]]]

\* Array.from(articles).map(...): the records in document order; an exception in the
\* callback leaves parseTrendingHTML as a whole
parseTrendingHTML(doc) ==
    LET all == [i \in 1..Len(doc) |-> ParseArticle(doc[i])] IN
    IF \E i \in 1..Len(doc) : all[i].threw
    THEN [state |-> "threw", records |-> <<>>]
    ELSE [state |-> "returned", records |-> [i \in 1..Len(doc) |-> all[i].record[1]]]

NotParsed == [state |-> "none", records |-> <<>>]

-----------------------------------------------------------------------------
(* fetchTrendingRepos, src/data-fetcher.js:113 and src/app.js:115 *)

\* the try block: what it returns, or the error it throws
TryFetch(net) ==
    CASE net.kind = "transport" -> [threw |-> TRUE, name |-> "TypeError", repos |-> <<>>]
      [] net.kind = "timeout"   -> [threw |-> TRUE, name |-> "AbortError", repos |-> <<>>]
      [] net.kind = "http"      -> [threw |-> TRUE, name |-> "Error", repos |-> <<>>]
      [] net.kind = "parse"     -> [threw |-> TRUE, name |-> "TypeError", repos |-> <<>>]
      [] net.kind = "page"      -> [threw |-> FALSE, name |-> "", repos |-> Records(net.n)]

\* a catch block that logs the cause and throws it again
CatchFetchRethrow(t) == [state |-> "rejected", value |-> <<>>]

\* the catch block: log the cause ("Timeout fetching ..." or "Error fetching ..."), return []
CatchFetch(t) == [state |-> "fulfilled", value |-> <<>>]

\* what the catch block writes to the console, "" when nothing is thrown
LogLine(net) ==
    LET t == TryFetch(net) IN
    IF ~t.threw THEN "" ELSE IF t.name = "AbortError" THEN "Timeout" ELSE "Error"

\* how the promise returned by fetchTrendingRepos settles
fetchTrendingRepos(net) ==
    LET t == TryFetch(net) IN
    IF t.threw THEN CatchFetch(t)
    ELSE [state |-> "fulfilled", value |-> t.repos]

\* the ways the promise of one call can settle, over everything the network can do
SettledOutcomes == {fetchTrendingRepos(net) : net \in NetOutcomes}

\* a cache write without the "repos.length > 0" test
WritesCacheAlways(which, settled) ==
    which = "DataFetcher" /\ settled.state = "fulfilled"

\* "if (repos.length > 0) this.cache.set(...)": only data-fetcher.js writes the cache here
WritesCache(which, settled) ==
    which = "DataFetcher" /\ settled.state = "fulfilled" /\ Len(settled.value) > 0

\* a cache write that keeps the entry a key already has
CacheAfterFetchKeepFirst(which, c, request, settled, t) ==
    IF WritesCache(which, settled) /\ ~Has(c, request.language, request.timeRange)
    THEN set(c, request.language, request.timeRange, settled.value, None, t)
    ELSE c

CacheAfterFetch(which, c, request, settled, t) ==
    IF WritesCache(which, settled)
    THEN set(c, request.language, request.timeRange, settled.value, None, t)
    ELSE c

-----------------------------------------------------------------------------
(* fetchMultipleConcurrent, src/data-fetcher.js:157 and src/app.js:153 *)

\* the "success" field of a result: repos.length > 0 in data-fetcher.js:166, true in app.js:162
SuccessFlag(which, repos) == IF which = "DataFetcher" THEN Len(repos) > 0 ELSE TRUE

Pending(request) ==
    [language |-> request.language, timeRange |-> request.timeRange,
     state |-> "pending", hasRepos |-> FALSE, repos |-> <<>>, success |-> FALSE]

\* .then(repos => ({...request, repos, success})).catch(error => ({...request, error, success: false}))
ThenCatch(which, request, settled) ==
    IF settled.state = "fulfilled"
    THEN [language |-> request.language, timeRange |-> request.timeRange,
          state |-> "fulfilled", hasRepos |-> TRUE, repos |-> settled.value,
          success |-> SuccessFlag(which, settled.value)]
    ELSE [language |-> request.language, timeRange |-> request.timeRange,
          state |-> "fulfilled", hasRepos |-> FALSE, repos |-> <<>>, success |-> FALSE]

\* positions of s holding v, and Array.findIndex for "p === promise" (0 stands for -1)
IndexOf(s, v) ==
    LET hits == {i \in 1..Len(s) : s[i] = v} IN
    IF hits = {} THEN 0 ELSE CHOOSE i \in hits : \A j \in hits : i <= j

\* executing.splice(index, 1); splice(-1, 1) removes the last element
SpliceOne(s, index) ==
    LET at == IF index = 0 THEN Len(s) ELSE index IN
    [i \in 1..(Len(s) - 1) |-> IF i < at THEN s[i] ELSE s[i + 1]]

\* "if (results.length >= concurrencyLimit)": whether the new promise is tracked in executing
Tracked(nResults, limit) == nResults >= limit

\* "if (executing.length >= concurrencyLimit)": whether the loop awaits Promise.race
MustWait(nExecuting, limit) == nExecuting >= limit

\* results delivered last first
PromiseAllReversed(results) == [i \in 1..Len(results) |-> results[Len(results) + 1 - i]]

\* Promise.all(results): the values, in the order of the array
PromiseAll(results) == results

-----------------------------------------------------------------------------
(* fetchWithRetry, src/data-fetcher.js:190 and src/app.js:186 *)

\* one activation of fetchWithRetry together with the fetchMultipleConcurrent it awaits.
\* results and executing are the arrays of fetchMultipleConcurrent (executing holds
\* positions of results); origin[j] is the position in the caller's results that
\* request j was copied from (history, used only to attribute fetches).
Frame(requests, retryCount, origin) ==
    [requests |-> requests, retryCount |-> retryCount, results |-> <<>>,
     executing |-> <<>>, pc |-> "loop", origin |-> origin]

Positions(s) == [i \in 1..Len(s) |-> i]

\* a filter that keeps every result
EveryPosition(results) == Positions(results)

\* results.filter(result => !result.success), as positions
FailedPositions(results) == SelectSeq(Positions(results), LAMBDA i : ~results[i].success)

\* .map(result => ({language: result.language, timeRange: result.timeRange}))
FailedRequests(results) ==
    LET fp == FailedPositions(results) IN
    [k \in 1..Len(fp) |-> Request(results[fp[k]].language, results[fp[k]].timeRange)]

\* a retry test that still retries when no round is left
ShouldRetryAtZero(failedRequests, retryCount) == Len(failedRequests) > 0 /\ retryCount >= 0

\* "if (failedRequests.length > 0 && retryCount > 0)"
ShouldRetry(failedRequests, retryCount) == Len(failedRequests) > 0 /\ retryCount > 0

\* results.findIndex(r => r.language === retryResult.language && r.timeRange === retryResult.timeRange)
FindOriginal(results, retryResult) ==
    LET hits == {i \in 1..Len(results) :
                    /\ results[i].language = retryResult.language
                    /\ results[i].timeRange = retryResult.timeRange} IN
    IF hits = {} THEN 0 ELSE CHOOSE i \in hits : \A j \in hits : i <= j

\* the body of the forEach below: "if (originalIndex !== -1) results[originalIndex] = retryResult"
ReplaceOne(results, retryResult) ==
    LET originalIndex == FindOriginal(results, retryResult) IN
    IF originalIndex # 0 THEN [results EXCEPT ![originalIndex] = retryResult] ELSE results

\* retryResults.forEach(retryResult => { ... }): the results after the first k retry results
\* have been handled, in their order
ReplaceFailed(results, retryResults) ==
    LET after[k \in 0..Len(retryResults)] ==
            IF k = 0 THEN results
            ELSE CHOOSE next \in {ReplaceOne(prev, retryResults[k]) : prev \in {after[k - 1]}} : TRUE
    IN after[Len(retryResults)]

-----------------------------------------------------------------------------
(* The run of a fetchWithRetry(requests, concurrencyLimit, retryRounds) call.        *)
(* A run is the pair [stack, attempts]; the operators below are the pieces of        *)
(* synchronous code between two awaits, as functions of the run.                     *)

TopOf(st) == st[Len(st)]

\* the position of the outermost input that request j of activation d stands for
RECURSIVE RootPos(_, _, _)
RootPos(st, d, j) == IF d = 1 THEN j ELSE RootPos(st, d - 1, st[d].origin[j])

PendingIn(f) == {j \in 1..Len(f.results) : f.results[j].state = "pending"}

\* one iteration of "for (const request of requests)" up to its await, or to the loop's end
CanStart(st) ==
    /\ st # <<>>
    /\ TopOf(st).pc = "loop"
    /\ Len(TopOf(st).results) < Len(TopOf(st).requests)

StartRequest(r, limit) ==
    LET f == TopOf(r.stack)
        j == Len(f.results) + 1
        results == Append(f.results, Pending(f.requests[j]))
        executing == IF Tracked(Len(results), limit) THEN Append(f.executing, j) ELSE f.executing
        wait == Tracked(Len(results), limit) /\ MustWait(Len(executing), limit)
    IN [stack |-> [r.stack EXCEPT ![Len(r.stack)] =
                      [f EXCEPT !.results = results, !.executing = executing,
                                !.pc = IF wait THEN "race" ELSE "loop"]],
        attempts |-> [r.attempts EXCEPT ![RootPos(r.stack, Len(r.stack), j)] = @ + 1]]

\* "await Promise.race(executing)" resumes once a promise in executing has settled;
\* then executing.splice(executing.findIndex(p => p === promise), 1)
CanResume(st) ==
    /\ st # <<>>
    /\ TopOf(st).pc = "race"
    /\ \E e \in 1..Len(TopOf(st).executing) :
          TopOf(st).results[TopOf(st).executing[e]].state = "fulfilled"

RaceResume(r) ==
    LET f == TopOf(r.stack)
        promise == Len(f.results)
    IN [r EXCEPT !.stack[Len(r.stack)] =
           [f EXCEPT !.executing = SpliceOne(f.executing, IndexOf(f.executing, promise)),
                     !.pc = "loop"]]

\* a batch that returns as soon as one of its promises has settled (Promise.race
\* in the place of Promise.all)
CanFinishOnFirst(st) ==
    /\ st # <<>>
    /\ TopOf(st).pc = "loop"
    /\ Len(TopOf(st).results) = Len(TopOf(st).requests)
    /\ (TopOf(st).results = <<>> \/ \E j \in 1..Len(TopOf(st).results) :
                                        TopOf(st).results[j].state = "fulfilled")

\* "return Promise.all(results)" resolves; fetchWithRetry filters the failures and either
\* calls itself for them or returns
CanFinish(st) ==
    /\ st # <<>>
    /\ TopOf(st).pc = "loop"
    /\ Len(TopOf(st).results) = Len(TopOf(st).requests)
    /\ PendingIn(TopOf(st)) = {}

BatchDone(r) ==
    LET f == TopOf(r.stack)
        results == PromiseAll(f.results)
        failedRequests == FailedRequests(results)
    IN IF ShouldRetry(failedRequests, f.retryCount)
       THEN [r EXCEPT !.stack =
                Append([r.stack EXCEPT ![Len(r.stack)] = [f EXCEPT !.results = results, !.pc = "retry"]],
                       Frame(failedRequests, f.retryCount - 1, FailedPositions(results)))]
       ELSE [r EXCEPT !.stack[Len(r.stack)] = [f EXCEPT !.results = results, !.pc = "return"]]

\* "return results": the caller, if any, replaces its failed results and returns in turn
CanReturn(st) == st # <<>> /\ TopOf(st).pc = "return"

Return(r) ==
    LET d == Len(r.stack) IN
    IF d = 1
    THEN [r EXCEPT !.stack[1].pc = "done"]
    ELSE LET caller == r.stack[d - 1] IN
         [r EXCEPT !.stack =
             Append(SubSeq(r.stack, 1, d - 2),
                    [caller EXCEPT !.results = ReplaceFailed(caller.results, TopOf(r.stack).results),
                                   !.pc = "return"])]

\* a continuation is ready to run: the event loop runs it before it handles any
\* further network event
Ready(st) == CanStart(st) \/ CanResume(st) \/ CanFinish(st) \/ CanReturn(st)

-----------------------------------------------------------------------------
(* State *)

NoFetch == [language |-> Null, timeRange |-> "", kind |-> "none", n |-> 0,
            state |-> "none", value |-> <<>>, log |-> ""]

NoProbe == [op |-> "none", language |-> Null, timeRange |-> "", customTTL |-> None,
            called |-> FALSE, valid |-> FALSE, data |-> None, replaced |-> None]

\* what is recorded of a fetchTrendingRepos call that settles
FetchRecord(request, net, settled) ==
    [language |-> request.language, timeRange |-> request.timeRange,
     kind |-> net.kind, n |-> net.n, state |-> settled.state,
     value |-> settled.value, log |-> LogLine(net)]

\* no batch has been started
NoBatch ==
    /\ concurrencyLimit = 1
    /\ retryRounds = 0
    /\ stack = <<>>
    /\ hist = <<>>
    /\ attempts = <<>>

NoSectionFetch == [path |-> "none", language |-> Null, timeRange |-> "", repos |-> <<>>]

\* displayTrendingRepos has not been called: no counter, no timer set (timers is history)
NoLoads == [completedLoads |-> 0, totalLanguages |-> 0, timers |-> 0]

\* nothing is displayed yet
NoUI ==
    /\ container = <<>>
    /\ sectionTimeRanges = [k \in {} |-> ""]
    /\ fetches = <<>>
    /\ clicks = 0
    /\ lastUI = NoSectionFetch
    /\ loads = NoLoads

\* the application has called nothing yet
NoApp ==
    /\ reads = <<>>
    /\ html = <<>>
    /\ parsed = NotParsed
    /\ languages = <<Null>>
    /\ preload = "idle"
    /\ NoUI

\* the page as it is after construction: nothing fetched, nothing cached
InitWith(which) ==
    /\ impl = which
    /\ NoBatch
    /\ calls = <<>>
    /\ cache = NoCache
    /\ now = 0
    /\ lastFetch = NoFetch
    /\ probe = NoProbe
    /\ NoApp

Init == InitWith("DataFetcher")

Called == stack # <<>>
Root == stack[1]
Top == TopOf(stack)
Done == Called /\ stack[1].pc = "done"

\* requests started and not yet settled
InFlight == IF Called THEN Cardinality(PendingIn(Top)) ELSE 0

RetryCounts == (0 - 1)..MaxRetry

-----------------------------------------------------------------------------
(* Actions of a batch *)

Run == [stack |-> stack, attempts |-> attempts]

\* fetchWithRetry(requests, limit, retryCount) is called
Call ==
    /\ ~Called
    /\ \E requests \in SeqsUpTo(RequestPool, MaxReq), limit \in 1..MaxLimit, retryCount \in RetryCounts :
          /\ concurrencyLimit' = limit
          /\ retryRounds' = retryCount
          /\ stack' = <<Frame(requests, retryCount, Positions(requests))>>
          /\ attempts' = [p \in 1..Len(requests) |-> 0]
          /\ hist' = [p \in 1..Len(requests) |-> <<>>]
    /\ UNCHANGED <<impl, appVars, calls, cacheVars, lastFetch, probe>>

\* the loop of fetchMultipleConcurrent starts the next request
LoopStep ==
    /\ CanStart(stack)
    /\ stack' = StartRequest(Run, concurrencyLimit).stack
    /\ attempts' = StartRequest(Run, concurrencyLimit).attempts
    /\ UNCHANGED <<impl, appVars, concurrencyLimit, retryRounds, hist, calls, cacheVars, lastFetch, probe>>

\* the loop resumes after "await Promise.race(executing)"
RaceStep ==
    /\ CanResume(stack)
    /\ stack' = RaceResume(Run).stack
    /\ UNCHANGED <<impl, appVars, concurrencyLimit, retryRounds, hist, attempts, calls, cacheVars, lastFetch, probe>>

\* Promise.all(results) resolves and fetchWithRetry goes on after its first await
AllStep ==
    /\ CanFinish(stack)
    /\ stack' = BatchDone(Run).stack
    /\ UNCHANGED <<impl, appVars, concurrencyLimit, retryRounds, hist, attempts, calls, cacheVars, lastFetch, probe>>

\* fetchWithRetry returns, to its caller or to itself
ReturnStep ==
    /\ CanReturn(stack)
    /\ stack' = Return(Run).stack
    /\ UNCHANGED <<impl, appVars, concurrencyLimit, retryRounds, hist, attempts, calls, cacheVars, lastFetch, probe>>

\* the network request of promise j ends: fetchTrendingRepos runs to its return and the
\* .then/.catch handler builds the result
Settle ==
    /\ Called
    /\ ~Ready(stack)
    /\ \E j \in PendingIn(Top), settled \in SettledOutcomes :
          LET request == Top.requests[j]
              result == ThenCatch(impl, request, settled)
          IN /\ stack' = [stack EXCEPT ![Len(stack)].results[j] = result]
             /\ cache' = CacheAfterFetch(impl, cache, request, settled, now)
             /\ hist' = [hist EXCEPT ![RootPos(stack, Len(stack), j)] = Append(@, result)]
    /\ UNCHANGED <<impl, appVars, concurrencyLimit, retryRounds, attempts, calls, now, lastFetch, probe>>

Next == Call \/ LoopStep \/ RaceStep \/ AllStep \/ ReturnStep \/ Settle

Spec == Init /\ [][Next]_vars

\* the event loop runs a continuation that is ready, and a pending request settles, at
\* the latest when its 5 s timeout aborts it: the run does not stop while a step is left
Fairness == WF_vars(Next)

FairSpec == Spec /\ Fairness

\* the same call in the older copy of the scheduler, src/app.js
InitApp == InitWith("app")

SpecApp == InitApp /\ [][Next]_vars

-----------------------------------------------------------------------------
(* Single fetchTrendingRepos calls against the cache, while time passes *)

PendingCalls == {i \in 1..Len(calls) : calls[i].state = "pending"}

\* fetchTrendingRepos(language, timeRange) is called and its request goes out
FetchCall ==
    /\ Len(calls) < MaxCalls
    /\ \E request \in RequestPool : calls' = Append(calls, Pending(request))
    /\ lastFetch' = NoFetch
    /\ UNCHANGED <<impl, appVars, batchVars, cacheVars, probe>>

\* the request of call i ends and fetchTrendingRepos runs to its return
FetchSettle ==
    /\ \E i \in PendingCalls, net \in NetOutcomes :
          LET request == Request(calls[i].language, calls[i].timeRange)
              settled == fetchTrendingRepos(net)
          IN /\ calls' = [calls EXCEPT ![i] = ThenCatch(impl, request, settled)]
             /\ cache' = CacheAfterFetch(impl, cache, request, settled, now)
             /\ lastFetch' = FetchRecord(request, net, settled)
    /\ UNCHANGED <<impl, appVars, batchVars, now, probe>>

\* time passes: the clock moves on by one default TTL
Tick ==
    /\ now < MaxTicks * defaultTTL
    /\ now' = now + defaultTTL
    /\ lastFetch' = NoFetch
    /\ UNCHANGED <<impl, appVars, batchVars, calls, cache, probe>>

NextFetch == FetchCall \/ FetchSettle \/ Tick

SpecFetch == Init /\ [][NextFetch]_vars

-----------------------------------------------------------------------------
(* Calls of the cache's own methods, with any ttl, while the clock runs *)

\* a ttl argument: not passed, or a number of clock units
TTLArgs == {None} \cup {Some(v) : v \in 0..MaxAge}

\* set(language, timeRange, data, ttl) is called; probe keeps its arguments and, as
\* history, the entry it replaced
CacheSetCall ==
    /\ \E request \in RequestPool, n \in PageSizes, ttlArg \in TTLArgs :
          /\ cache' = set(cache, request.language, request.timeRange, Records(n), ttlArg, now)
          /\ probe' = [op |-> "set", language |-> request.language,
                       timeRange |-> request.timeRange, customTTL |-> ttlArg,
                       called |-> FALSE, valid |-> FALSE, data |-> Some(Records(n)),
                       replaced |-> get(cache, request.language, request.timeRange)]
    /\ UNCHANGED <<impl, appVars, batchVars, calls, now, lastFetch>>

\* getValid(language, timeRange, customTTL) is called; it calls get and isValid
GetValidCall ==
    /\ \E request \in RequestPool, customTTL \in TTLArgs :
          probe' = [op |-> "getValid", replaced |-> None,
                    language |-> request.language, timeRange |-> request.timeRange,
                    customTTL |-> customTTL, called |-> TRUE,
                    valid |-> isValid(get(cache, request.language, request.timeRange), customTTL, now),
                    data |-> getValid(cache, request.language, request.timeRange, customTTL, now)]
    /\ UNCHANGED <<impl, appVars, batchVars, calls, cacheVars, lastFetch>>

\* time passes: one clock unit
ClockTick ==
    /\ now < MaxAge
    /\ now' = now + 1
    /\ probe' = NoProbe
    /\ UNCHANGED <<impl, appVars, batchVars, calls, cache, lastFetch>>

\* time passes: a whole default TTL
ClockJump ==
    /\ now < MaxTicks * defaultTTL
    /\ now' = now + defaultTTL
    /\ probe' = NoProbe
    /\ UNCHANGED <<impl, appVars, batchVars, calls, cache, lastFetch>>

NextCache == CacheSetCall \/ GetValidCall \/ ClockTick \/ ClockJump

SpecCache == Init /\ [][NextCache]_vars

-----------------------------------------------------------------------------
(* fetchWithCache, src/data-fetcher.js:219 *)

\* "if (cachedData)": null is falsy, an array (empty or not) is truthy
CacheHit(cachedData) == cachedData # None

\* a miss that reads the cache again once its fetch has settled
MissReturnRecheck(c, request, settled, t) ==
    LET again == getValid(c, request.language, request.timeRange, None, t) IN
    IF again # None THEN again[1] ELSE settled.value

\* "return await this.fetchTrendingRepos(language, timeRange)": the value of the fetch;
\* c and t, the cache and the clock at that moment, are not read
MissReturn(c, request, settled, t) == settled.value

\* fetches of fetchWithCache calls that have settled so far, in rs
SettledMisses(rs) == {i \in 1..Len(rs) : rs[i].state = "fulfilled" /\ ~rs[i].hit}

\* history: the calls and settlements that have happened so far, as a count
Events(rs) == Len(rs) + Cardinality(SettledMisses(rs))

\* a fetchWithCache call as it stands when the call reaches its return or its await.
\* entry and at are history: the cache entry of the key and the clock when it was called;
\* callNo and doneNo number the call and its settlement among all events
StartRead(c, request, t, no) ==
    LET cachedData == getValid(c, request.language, request.timeRange, None, t) IN
    [language |-> request.language, timeRange |-> request.timeRange,
     entry |-> get(c, request.language, request.timeRange), at |-> t,
     callNo |-> no, doneNo |-> IF CacheHit(cachedData) THEN no ELSE 0,
     doneAt |-> IF CacheHit(cachedData) THEN t ELSE 0,
     hit |-> CacheHit(cachedData),
     cacheReads |-> 1,
     issued |-> IF CacheHit(cachedData) THEN 0 ELSE 1,
     state |-> IF CacheHit(cachedData) THEN "fulfilled" ELSE "pending",
     fetched |-> None,
     value |-> IF CacheHit(cachedData) THEN cachedData[1] ELSE <<>>]

PendingReads == {i \in 1..Len(reads) : reads[i].state = "pending"}

\* fetchWithCache(language, timeRange) is called: it returns the cached data, or sends
\* its request
ReadCall ==
    /\ Len(reads) < MaxReads
    /\ \E request \in RequestPool :
          reads' = Append(reads, StartRead(cache, request, now, Events(reads) + 1))
    /\ UNCHANGED <<impl, batchVars, calls, cacheVars, lastFetch, probe, parseVars, preloadVars, uiVars>>

\* the request of call i ends: fetchTrendingRepos runs to its return, writing the cache
\* if it has records, and fetchWithCache returns
ReadSettle ==
    /\ \E i \in PendingReads, settled \in SettledOutcomes :
          LET request == Request(reads[i].language, reads[i].timeRange)
              after == CacheAfterFetch(impl, cache, request, settled, now)
          IN /\ cache' = after
             /\ reads' = [reads EXCEPT ![i] =
                              [@ EXCEPT !.state = "fulfilled",
                                        !.fetched = Some(settled.value),
                                        !.value = MissReturn(after, request, settled, now),
                                        !.doneNo = Events(reads) + 1,
                                        !.doneAt = now]]
    /\ UNCHANGED <<impl, batchVars, calls, now, lastFetch, probe, parseVars, preloadVars, uiVars>>

\* time passes: the clock moves on by one default TTL
ReadTick ==
    /\ now < MaxTicks * defaultTTL
    /\ now' = now + defaultTTL
    /\ UNCHANGED <<impl, batchVars, calls, cache, lastFetch, probe, appVars>>

NextRead == ReadCall \/ ReadSettle \/ ReadTick

SpecRead == Init /\ [][NextRead]_vars

-----------------------------------------------------------------------------
(* parseTrendingHTML applied to a document *)

InitParse ==
    /\ impl = "DataFetcher"
    /\ NoBatch
    /\ calls = <<>>
    /\ cache = NoCache
    /\ now = 0
    /\ lastFetch = NoFetch
    /\ probe = NoProbe
    /\ reads = <<>>
    /\ languages = <<Null>>
    /\ preload = "idle"
    /\ NoUI
    /\ html \in Documents
    /\ parsed = NotParsed

\* parseTrendingHTML(html) is called
Parse ==
    /\ parsed.state = "none"
    /\ parsed' = parseTrendingHTML(html)
    /\ UNCHANGED <<impl, batchVars, calls, cacheVars, lastFetch, probe, reads, html, preloadVars, uiVars>>

NextParse == Parse

SpecParse == InitParse /\ [][NextParse]_vars

-----------------------------------------------------------------------------
(* preloadWeeklyMonthlyData, src/unnamed/part_002:234 and src/app.js:487 *)

MaxSelected == 4       \* most languages selected in the settings

PreloadLimit == 5      \* the concurrencyLimit preload passes, part_002:247 and app.js:500

\* names a user can select, in the order of the settings page: the custom language
\* "all" and predefined languages
SelectableLanguages == <<"all", "Rust", "Go", "C">>

\* this.languages = [null, ...selectedLanguages], the selected languages being distinct
LanguageLists ==
    {<<Null>> \o SelectSeq(SelectableLanguages, LAMBDA name : name \in chosen) :
        chosen \in {c \in SUBSET {SelectableLanguages[i] : i \in 1..Len(SelectableLanguages)} :
                        Cardinality(c) <= MaxSelected}}

\* languages.forEach(lang => preloadRequests.push({lang, 'weekly'}, {lang, 'monthly'}))
PreloadRequests(langs) ==
    [k \in 1..(2 * Len(langs)) |->
        Request(langs[(k + 1) \div 2], IF k % 2 = 1 THEN "weekly" ELSE "monthly")]

\* setCachedData(language, timeRange, data) of app.js: an entry without a ttl
setCachedData(c, language, timeRange, data, t) ==
    LET key == generateKey(language, timeRange) IN
    [k \in DOMAIN c \cup {key} |-> IF k = key THEN [data |-> data, timestamp |-> t] ELSE c[k]]

\* a test that trusts the success flag of a result
PreloadedOnSuccess(result) == result.success /\ result.hasRepos

\* "if (result.success && result.repos && result.repos.length > 0)"
Preloaded(result) == result.success /\ result.hasRepos /\ Len(result.repos) > 0

\* results.forEach(...): app.js stores each preloaded result, data-fetcher.js has stored
\* them already and the loop only logs
RECURSIVE StorePreloaded(_, _, _, _)
StorePreloaded(which, c, results, t) ==
    IF results = <<>> \/ which = "DataFetcher" THEN c
    ELSE LET result == Head(results)
             next == IF Preloaded(result)
                     THEN setCachedData(c, result.language, result.timeRange, result.repos, t)
                     ELSE c
         IN StorePreloaded(which, next, Tail(results), t)

InitPreload ==
    /\ impl \in {"DataFetcher", "app"}
    /\ NoBatch
    /\ calls = <<>>
    /\ cache = NoCache
    /\ now = 0
    /\ lastFetch = NoFetch
    /\ probe = NoProbe
    /\ reads = <<>>
    /\ html = <<>>
    /\ parsed = NotParsed
    /\ languages \in LanguageLists
    /\ preload = "idle"
    /\ NoUI

\* preloadWeeklyMonthlyData() is called: it builds its requests and awaits
\* fetchMultipleConcurrent(preloadRequests, 5), a batch that is not retried
PreloadCall ==
    /\ preload = "idle"
    /\ ~Called
    /\ preload' = "running"
    /\ concurrencyLimit' = PreloadLimit
    /\ retryRounds' = 0
    /\ stack' = <<Frame(PreloadRequests(languages), 0, Positions(PreloadRequests(languages)))>>
    /\ attempts' = [p \in 1..(2 * Len(languages)) |-> 0]
    /\ hist' = [p \in 1..(2 * Len(languages)) |-> <<>>]
    /\ UNCHANGED <<impl, calls, cacheVars, lastFetch, probe, reads, parseVars, languages, uiVars>>

\* the batch has returned: the forEach over the results runs and preload returns
PreloadFinish ==
    /\ preload = "running"
    /\ Done
    /\ cache' = StorePreloaded(impl, cache, Root.results, now)
    /\ preload' = "completed"
    /\ UNCHANGED <<impl, batchVars, calls, now, lastFetch, probe, reads, parseVars, languages, uiVars>>

NextPreload ==
    PreloadCall \/ LoopStep \/ RaceStep \/ AllStep \/ ReturnStep \/ Settle \/ PreloadFinish

SpecPreload == InitPreload /\ [][NextPreload]_vars

-----------------------------------------------------------------------------
(* The sections of the page: displayTrendingRepos and processLanguageResult of        *)
(* src/unnamed/part_002, createLanguageSection, createErrorSection and                *)
(* createLoadingSection of src/ui-components.js                                       *)

MaxSections == 2       \* most sections on the page
MaxClicks == 2         \* clicks made in a run

\* UIComponents.timeRanges
timeRanges == <<"daily", "weekly", "monthly">>

\* "language || 'all'": the data-language attribute of a section and its key in
\* sectionTimeRanges
OrAll(language) == IF language = Null \/ language = "" THEN "all" ELSE language

\* a section element: language is the subject its handlers were created for, retry
\* whether it shows a retry button; obtainedFor is history, the time range its records
\* were fetched or read from the cache for
createLoadingSection(language) ==
    [dataLanguage |-> OrAll(language), language |-> language, state |-> "Loading",
     repos |-> <<>>, retry |-> FALSE, obtainedFor |-> ""]

\* a section with one card per record, repos.forEach(...); the caller sets data-language
createLanguageSection(language, repos) ==
    [dataLanguage |-> OrAll(language), language |-> language, state |-> "Loaded",
     repos |-> repos, retry |-> FALSE, obtainedFor |-> ""]

\* history: the section, marked with the time range its records were obtained for
ObtainedFor(section, timeRange) == [section EXCEPT !.obtainedFor = timeRange]

createErrorSection(language) ==
    [dataLanguage |-> OrAll(language), language |-> language, state |-> "Error",
     repos |-> <<>>, retry |-> TRUE, obtainedFor |-> ""]

\* container.querySelector(`[data-language="..."]`): the first match, 0 for null
QuerySection(c, language) ==
    LET hits == {i \in 1..Len(c) : c[i].dataLanguage = OrAll(language)} IN
    IF hits = {} THEN 0 ELSE CHOOSE i \in hits : \A j \in hits : i <= j

\* "if (oldSection) container.replaceChild(section, oldSection)"
ReplaceSection(c, language, section) ==
    LET oldSection == QuerySection(c, language) IN
    IF oldSection # 0 THEN [c EXCEPT ![oldSection] = section] ELSE c

\* processLanguageResult(result, container), part_002:204-230
processLanguageResult(c, result) ==
    IF result.success /\ result.hasRepos /\ Len(result.repos) > 0
    THEN ReplaceSection(c, result.language,
                        ObtainedFor(createLanguageSection(result.language, result.repos),
                                    result.timeRange))
    ELSE ReplaceSection(c, result.language, createErrorSection(result.language))

\* retrySingleLanguage after its await, part_002:175-200: an empty result is thrown
\* and caught as an error
RetryDone(c, language, repos) ==
    IF Len(repos) > 0
    THEN ReplaceSection(c, language, ObtainedFor(createLanguageSection(language, repos), "daily"))
    ELSE ReplaceSection(c, language, createErrorSection(language))

\* the update function after "await fetchWithCache", part_002:129-146: a section is
\* built from newRepos whatever their number
UpdateDone(c, language, newTimeRange, newRepos) ==
    ReplaceSection(c, language, ObtainedFor(createLanguageSection(language, newRepos), newTimeRange))

\* a fetch made for a section: by displayTrendingRepos ("initial"), by
\* updateLanguageSections ("added"), by retrySingleLanguage ("retry") or by the update
\* function through fetchWithCache ("range")
SectionFetch(path, language, timeRange) ==
    [path |-> path, language |-> language, timeRange |-> timeRange]

\* what a section fetch leaves in the container when it has returned repos
SectionDone(c, fetch, repos) ==
    CASE fetch.path \in {"initial", "added"} ->
            processLanguageResult(c, ThenCatch("DataFetcher", Request(fetch.language, fetch.timeRange),
                                               [state |-> "fulfilled", value |-> repos]))
      [] fetch.path = "retry" -> RetryDone(c, fetch.language, repos)
      [] fetch.path = "range" -> UpdateDone(c, fetch.language, fetch.timeRange, repos)

\* a counter that calls every load the last one
LastLoadAlways(completedLoads, totalLanguages) == completedLoads >= 1

\* "if (completedLoads === totalLanguages)"
LastLoad(completedLoads, totalLanguages) == completedLoads = totalLanguages

\* "completedLoads++; if (...) setTimeout(() => this.preloadWeeklyMonthlyData(), 1000)"
CountLoad(l) ==
    LET completedLoads == l.completedLoads + 1 IN
    [l EXCEPT !.completedLoads = completedLoads,
              !.timers = IF LastLoad(completedLoads, l.totalLanguages) THEN @ + 1 ELSE @]

UILanguageLists == {l \in LanguageLists : Len(l) <= MaxSections}

InitUI ==
    /\ impl = "DataFetcher"
    /\ NoBatch
    /\ calls = <<>>
    /\ cache = NoCache
    /\ now = 0
    /\ lastFetch = NoFetch
    /\ probe = NoProbe
    /\ reads = <<>>
    /\ html = <<>>
    /\ parsed = NotParsed
    /\ languages \in UILanguageLists
    /\ preload = "idle"
    /\ NoUI

\* displayTrendingRepos(): a loading section per language, and the daily fetch of each
Display ==
    /\ container = <<>>
    /\ container' = [i \in 1..Len(languages) |-> createLoadingSection(languages[i])]
    /\ sectionTimeRanges' =
          [k \in DOMAIN sectionTimeRanges \cup {OrAll(languages[i]) : i \in 1..Len(languages)} |->
              IF k \in DOMAIN sectionTimeRanges THEN sectionTimeRanges[k] ELSE "daily"]
    /\ fetches' = [i \in 1..Len(languages) |-> SectionFetch("initial", languages[i], "daily")]
    /\ loads' = [completedLoads |-> 0, totalLanguages |-> Len(languages), timers |-> 0]
    /\ lastUI' = NoSectionFetch
    /\ UNCHANGED <<impl, batchVars, calls, cacheVars, lastFetch, probe, reads, parseVars,
                   preloadVars, clicks>>

\* the request of a section fetch ends: fetchTrendingRepos returns, writing the cache
\* if it has records, and the code that awaited it updates the page
SectionSettle ==
    /\ \E i \in 1..Len(fetches), settled \in SettledOutcomes :
          LET fetch == fetches[i]
              request == Request(fetch.language, fetch.timeRange)
          IN /\ cache' = CacheAfterFetch(impl, cache, request, settled, now)
             /\ container' = SectionDone(container, fetch, settled.value)
             /\ fetches' = SpliceOne(fetches, i)
             /\ loads' = IF fetch.path = "initial" THEN CountLoad(loads) ELSE loads
             /\ lastUI' = [path |-> fetch.path, language |-> fetch.language,
                           timeRange |-> fetch.timeRange, repos |-> settled.value]
    /\ UNCHANGED <<impl, batchVars, calls, now, lastFetch, probe, reads, parseVars,
                   preloadVars, sectionTimeRanges, clicks>>

\* the retry button of an error section is clicked: its content becomes a spinner and
\* retrySingleLanguage puts a loading section in the page and fetches the daily page
RetryClick ==
    /\ clicks < MaxClicks
    /\ \E i \in 1..Len(container) :
          /\ container[i].state = "Error"
          /\ container[i].retry
          /\ container' = ReplaceSection([container EXCEPT ![i].retry = FALSE],
                                         container[i].language,
                                         createLoadingSection(container[i].language))
          /\ fetches' = Append(fetches, SectionFetch("retry", container[i].language, "daily"))
    /\ clicks' = clicks + 1
    /\ lastUI' = NoSectionFetch
    /\ UNCHANGED <<impl, batchVars, calls, cacheVars, lastFetch, probe, reads, parseVars,
                   preloadVars, sectionTimeRanges, loads>>

\* a time-range button of a loaded section is clicked: the selection is recorded and
\* the update function calls fetchWithCache, which returns cached data at once or
\* sends a request
RangeClick ==
    /\ clicks < MaxClicks
    /\ \E i \in 1..Len(container), r \in 1..Len(timeRanges) :
          LET language == container[i].language
              range == timeRanges[r]
              cachedData == getValid(cache, language, range, None, now)
          IN /\ container[i].state = "Loaded"
             /\ sectionTimeRanges' =
                   [k \in DOMAIN sectionTimeRanges \cup {OrAll(language)} |->
                       IF k = OrAll(language) THEN range ELSE sectionTimeRanges[k]]
             /\ IF CacheHit(cachedData)
                THEN /\ container' = UpdateDone(container, language, range, cachedData[1])
                     /\ fetches' = fetches
                     /\ lastUI' = [path |-> "range", language |-> language,
                                   timeRange |-> range, repos |-> cachedData[1]]
                ELSE /\ container' = container
                     /\ fetches' = Append(fetches, SectionFetch("range", language, range))
                     /\ lastUI' = NoSectionFetch
    /\ clicks' = clicks + 1
    /\ UNCHANGED <<impl, batchVars, calls, cacheVars, lastFetch, probe, reads, parseVars,
                   preloadVars, loads>>

\* removedLanguages.forEach(lang => { section = container.querySelector(...);
\* if (section) section.remove() })
RECURSIVE RemoveSections(_, _)
RemoveSections(c, removedLanguages) ==
    IF removedLanguages = <<>> THEN c
    ELSE LET section == QuerySection(c, Head(removedLanguages)) IN
         RemoveSections(IF section # 0 THEN SpliceOne(c, section) ELSE c, Tail(removedLanguages))

\* the Save button of the settings is clicked with the selection selected:
\* handleSettingsSave stores it, reloads this.languages and calls
\* updateLanguageSections, which removes sections, appends loading sections and
\* fetches the daily page of each new language
SettingsSave ==
    /\ clicks < MaxClicks
    /\ container # <<>>
    /\ \E list \in UILanguageLists :
          LET selectedLanguages == Tail(list)
              oldLanguages == Tail(languages)
              newLanguages ==
                  SelectSeq(selectedLanguages,
                            LAMBDA lang : \A i \in 1..Len(oldLanguages) : oldLanguages[i] # lang)
              removedLanguages ==
                  SelectSeq(oldLanguages,
                            LAMBDA lang : \A i \in 1..Len(selectedLanguages) : selectedLanguages[i] # lang)
          IN /\ languages' = <<Null>> \o selectedLanguages
             /\ container' = RemoveSections(container, removedLanguages)
                                \o [i \in 1..Len(newLanguages) |-> createLoadingSection(newLanguages[i])]
             /\ sectionTimeRanges' =
                   [k \in DOMAIN sectionTimeRanges \cup {OrAll(newLanguages[i]) : i \in 1..Len(newLanguages)} |->
                       IF k \in DOMAIN sectionTimeRanges THEN sectionTimeRanges[k] ELSE "daily"]
             /\ fetches' = fetches \o [i \in 1..Len(newLanguages) |->
                                           SectionFetch("added", newLanguages[i], "daily")]
    /\ clicks' = clicks + 1
    /\ lastUI' = NoSectionFetch
    /\ UNCHANGED <<impl, batchVars, calls, cacheVars, lastFetch, probe, reads, parseVars, preload, loads>>

NextUI == Display \/ SectionSettle \/ RetryClick \/ RangeClick \/ SettingsSave

SpecUI == InitUI /\ [][NextUI]_vars

\* every request settles or is aborted by the timer of fetchTrendingRepos
\* (data-fetcher.js:118-120): a section fetch in flight eventually returns
FairSpecUI == SpecUI /\ WF_vars(SectionSettle)

-----------------------------------------------------------------------------
(* The keys of the cache, src/cache-manager.js:11, for the subjects of the settings *)

MaxKeys == 2           \* most entries in the cache

\* the subjects a fetch can be made for: null, and every name a user can select
Subjects == {Null} \cup {SelectableLanguages[i] : i \in 1..Len(SelectableLanguages)}

Pairs == {Request(language, timeRanges[r]) : language \in Subjects, r \in 1..Len(timeRanges)}

\* set(language, timeRange, data) is called for a pair, with the default ttl
SetPair ==
    /\ \E pair \in Pairs :
          /\ Has(cache, pair.language, pair.timeRange) \/ Cardinality(DOMAIN cache) < MaxKeys
          /\ cache' = set(cache, pair.language, pair.timeRange, Records(MaxRepos), None, now)
          /\ probe' = [op |-> "set", language |-> pair.language, timeRange |-> pair.timeRange,
                       customTTL |-> None, called |-> FALSE, valid |-> FALSE,
                       data |-> Some(Records(MaxRepos)),
                       replaced |-> get(cache, pair.language, pair.timeRange)]
    /\ UNCHANGED <<impl, appVars, batchVars, calls, now, lastFetch>>

\* getValid(language, timeRange) is called for a pair
GetPair ==
    /\ \E pair \in Pairs :
          probe' = [op |-> "getValid", replaced |-> None,
                    language |-> pair.language, timeRange |-> pair.timeRange,
                    customTTL |-> None, called |-> TRUE,
                    valid |-> isValid(get(cache, pair.language, pair.timeRange), None, now),
                    data |-> getValid(cache, pair.language, pair.timeRange, None, now)]
    /\ UNCHANGED <<impl, appVars, batchVars, calls, cacheVars, lastFetch>>

NextKeys == SetPair \/ GetPair

SpecKeys == Init /\ [][NextKeys]_vars

-----------------------------------------------------------------------------
(* Properties *)

\* the batch of the outermost call has returned: its Promise.all has resolved
BatchReturned == Called /\ Root.pc \in {"retry", "done"}

\* the result of request i of activation d is that of its own fetch: the d-th fetch
\* made for the position of the input it stands for
OwnResult(d, i) == hist[RootPos(stack, d, i)][d]

SuccessesOf(results) == Cardinality({i \in 1..Len(results) : results[i].success})

FailedFirst(p) == hist[p] # <<>> /\ ~hist[p][1].success
SucceededOnRetry(p) == \E k \in 2..Len(hist[p]) : hist[p][k].success
NeverSucceeded(p) == \A k \in 1..Len(hist[p]) : ~hist[p][k].success

\* C1: while fetchMultipleConcurrent runs, the requests started and not yet settled
\* never number more than concurrencyLimit
C1_InFlightWithinLimit == InFlight <= concurrencyLimit

\* C2: what a batch returns has the length of its input and holds at each position i
\* the language and time range of requests[i] and the outcome of that request's own
\* fetch, whatever the order of completion
C2_ResultsAligned ==
    \A d \in 1..Len(stack) :
        (stack[d].pc = "retry" \/ (stack[d].pc = "done" /\ retryRounds <= 0)) =>
            /\ Len(stack[d].results) = Len(stack[d].requests)
            /\ \A i \in 1..Len(stack[d].requests) :
                  /\ stack[d].results[i].language = stack[d].requests[i].language
                  /\ stack[d].results[i].timeRange = stack[d].requests[i].timeRange
                  /\ stack[d].results[i].state = "fulfilled"
                  /\ stack[d].results[i] = OwnResult(d, i)

\* a returned batch in which two requests for the same page hold different outcomes
C2_Witness ==
    /\ BatchReturned
    /\ \E i, k \in 1..Len(Root.results) :
          /\ i < k
          /\ Root.requests[i] = Root.requests[k]
          /\ Root.results[i].repos # Root.results[k].repos
          /\ Root.results[k].success

\* every request of the input has been started and has its result in the output
BatchComplete ==
    /\ BatchReturned
    /\ Len(Root.results) = Len(Root.requests)
    /\ \A i \in 1..Len(Root.requests) :
          /\ attempts[i] >= 1
          /\ hist[i] # <<>>
          /\ Root.results[i].state = "fulfilled"
          /\ (Root.pc = "retry" => Root.results[i] = hist[i][1])

\* C3: when every request settles, a fetchMultipleConcurrent call returns, with every
\* request of its input started and a result for each in its output
C3_BatchReturnsComplete ==
    /\ Called ~> BatchReturned
    /\ [](BatchReturned => BatchComplete)

\* a batch of several requests, run one at a time, returned with a failure among its results
C3_Witness ==
    /\ BatchComplete
    /\ Len(Root.requests) >= 3
    /\ concurrencyLimit = 1
    /\ \E i \in 1..Len(Root.results) : ~hist[i][1].success
    /\ \E i \in 1..Len(Root.results) : hist[i][1].success

RoundsAllowed == (IF retryRounds > 0 THEN retryRounds ELSE 0) + 1

AttemptsBounded ==
    Called =>
        \A p \in 1..Len(attempts) :
            /\ attempts[p] <= RoundsAllowed
            /\ (Done => attempts[p] >= 1)
            /\ (Done /\ retryRounds <= 0 => attempts[p] = 1)

\* C4: fetchWithRetry terminates, having fetched each request of its input at most
\* retryRounds + 1 times, and exactly once when retryRounds <= 0
C4_BoundedRetry == []AttemptsBounded /\ <>Done

\* a call that has returned after using every round for some request
C4_Witness ==
    /\ Done
    /\ retryRounds >= 1
    /\ \E p \in 1..Len(attempts) : attempts[p] = retryRounds + 1
    /\ \E p \in 1..Len(attempts) : attempts[p] = 1

\* C5: in the final result of fetchWithRetry, every request that failed on the first
\* pass and succeeded on a retry is a success at its own position, so that the
\* successes number the first-pass successes plus the retry successes
C5_RetrySuccessKept ==
    Done =>
        /\ \A p \in 1..Len(hist) : FailedFirst(p) /\ SucceededOnRetry(p) => Root.results[p].success
        /\ SuccessesOf(Root.results) =
              Cardinality({p \in 1..Len(hist) : hist[p][1].success})
                + Cardinality({p \in 1..Len(hist) : FailedFirst(p) /\ SucceededOnRetry(p)})

\* C6: in the final result of fetchWithRetry, a request that failed on every round is
\* a failure at its own position, and the result has the length of the input and at
\* each position the language and time range of the request there
C6_FailureKept ==
    Done =>
        /\ Len(Root.results) = Len(Root.requests)
        /\ \A p \in 1..Len(Root.requests) :
              /\ Root.results[p].language = Root.requests[p].language
              /\ Root.results[p].timeRange = Root.requests[p].timeRange
              /\ (NeverSucceeded(p) => ~Root.results[p].success)

\* C7: in the batch and retry path a request whose fetch yields no records, for any
\* cause, is marked success = false, and is fetched again while retry rounds remain
C7_EmptyIsFailure ==
    Called =>
        /\ \A d \in 1..Len(stack) : \A i \in 1..Len(stack[d].results) :
              stack[d].results[i].state = "fulfilled" /\ stack[d].results[i].repos = <<>>
                  => ~stack[d].results[i].success
        /\ \A p \in 1..Len(hist) :
              Done /\ Len(hist[p]) < RoundsAllowed => hist[p][Len(hist[p])].repos # <<>>

FailureKinds == {"transport", "http", "timeout", "parse"}

\* C8: fetchTrendingRepos never rejects; after a transport error, a non-2xx status, a
\* timeout or an exception in the parser it resolves to the empty sequence, the same
\* value for a timeout as for a transport error
C8_NeverRejects ==
    lastFetch.kind # "none" =>
        /\ lastFetch.state = "fulfilled"
        /\ (lastFetch.kind \in FailureKinds => lastFetch.value = <<>>)
        /\ \A i \in 1..Len(calls) : calls[i].state # "pending" => calls[i].hasRepos

\* a call that timed out has settled
C8_Witness == lastFetch.kind = "timeout" /\ lastFetch.state = "fulfilled"

\* the key a settled fetch was made for
FetchKey(f) == generateKey(f.language, f.timeRange)

\* C9: when a fetchTrendingRepos call settles, the cache entry of its key is written,
\* with the records returned, exactly when records were returned; otherwise the cache
\* is unchanged; no other key is touched
C9_CacheWrittenOnSuccessOnly ==
    [][lastFetch'.kind # "none" =>
          IF lastFetch'.value # <<>>
          THEN /\ DOMAIN cache' = DOMAIN cache \cup {FetchKey(lastFetch')}
               /\ cache'[FetchKey(lastFetch')] =
                     [data |-> lastFetch'.value, timestamp |-> now, ttl |-> defaultTTL]
               /\ \A k \in DOMAIN cache : k # FetchKey(lastFetch') => cache'[k] = cache[k]
          ELSE cache' = cache]_vars

\* a fetch has failed for a key whose entry is stale, and the entry is still there
C9_Witness ==
    /\ lastFetch.kind \in FailureKinds
    /\ FetchKey(lastFetch) \in DOMAIN cache
    /\ now - cache[FetchKey(lastFetch)].timestamp >= cache[FetchKey(lastFetch)].ttl
    /\ cache[FetchKey(lastFetch)].data # <<>>

\* the entry a getValid call examined
ProbedEntry == get(cache, probe.language, probe.timeRange)

\* C10: isValid(entry, ttlOverride) is true exactly when the entry is present and
\* now - entry.timestamp < T, T being the override when one is given and the entry's
\* ttl otherwise, for every ttl >= 0
C10_ValidIffYoungerThanTTL ==
    probe.called =>
        (probe.valid <=>
            /\ ProbedEntry # None
            /\ now - ProbedEntry[1].timestamp
                  < (IF probe.customTTL # None THEN probe.customTTL[1] ELSE ProbedEntry[1].ttl))

\* C11: getValid with the default TTL, called at the instant a set with the default
\* TTL stored the entry, returns the stored data unchanged; called when the clock has
\* reached or passed timestamp + TTL, with the entry still the one stored, it returns
\* nothing
C11_SetThenGetValid ==
    (/\ probe.called
     /\ probe.customTTL = None
     /\ ProbedEntry # None
     /\ ProbedEntry[1].ttl = defaultTTL)
        => /\ (now = ProbedEntry[1].timestamp => probe.data = Some(ProbedEntry[1].data))
           /\ (now >= ProbedEntry[1].timestamp + defaultTTL => probe.data = None)

\* getValid found an entry of the default TTL exactly as old as its TTL, and returned nothing
C11_Witness ==
    /\ probe.called
    /\ probe.customTTL = None
    /\ ProbedEntry # None
    /\ ProbedEntry[1].ttl = defaultTTL
    /\ ProbedEntry[1].data # <<>>
    /\ now = ProbedEntry[1].timestamp + defaultTTL
    /\ probe.data = None

\* the entry a fetchWithCache call found was valid: present and younger than its ttl
FoundValid(r) == r.entry # None /\ r.at - r.entry[1].timestamp < r.entry[1].ttl

\* C12: a fetchWithCache call that finds a valid entry returns that entry's data and
\* sends no request; any other call sends exactly one fetchTrendingRepos request and
\* returns what that fetch returned, the empty sequence on failure, having read the
\* cache once
C12_CacheFirst ==
    \A i \in 1..Len(reads) :
        /\ reads[i].hit <=> FoundValid(reads[i])
        /\ reads[i].hit =>
              /\ reads[i].state = "fulfilled"
              /\ reads[i].issued = 0
              /\ reads[i].value = reads[i].entry[1].data
        /\ ~reads[i].hit =>
              /\ reads[i].issued = 1
              /\ reads[i].cacheReads = 1
              /\ (reads[i].state = "fulfilled" => Some(reads[i].value) = reads[i].fetched)

\* a call missed and its fetch stored records; a call made after that fetch had settled
\* was served those records from the cache without a request
C12_Witness ==
    \E i, j \in 1..Len(reads) :
        /\ ~reads[i].hit
        /\ reads[i].issued = 1
        /\ reads[i].value # <<>>
        /\ reads[j].hit
        /\ reads[j].issued = 0
        /\ reads[j].callNo > reads[i].doneNo
        /\ reads[j].value = reads[i].value

ReadKey(r) == generateKey(r.language, r.timeRange)

\* two fetchWithCache calls for the same key, neither served from the cache, each
\* called before the other's fetch had settled
Overlap(i, j) ==
    /\ i # j
    /\ ReadKey(reads[i]) = ReadKey(reads[j])
    /\ ~reads[i].hit /\ ~reads[j].hit
    /\ (reads[i].state = "pending" \/ reads[j].callNo < reads[i].doneNo)
    /\ (reads[j].state = "pending" \/ reads[i].callNo < reads[j].doneNo)

\* the fetches for key k that have returned records
Writers(k) == {i \in SettledMisses(reads) : ReadKey(reads[i]) = k /\ reads[i].value # <<>>}

\* the one among them that settled last
LastWriter(k) == CHOOSE i \in Writers(k) : \A j \in Writers(k) : reads[j].doneNo <= reads[i].doneNo

\* C13: two overlapping fetchWithCache calls for the same cold key each send a request,
\* and each that returns records writes the cache: the entry of the key is at every
\* moment the one written by the fetch that settled last
C13_NoDedupLastWriteWins ==
    /\ \A i, j \in 1..Len(reads) :
          i < j /\ Overlap(i, j) => reads[i].issued = 1 /\ reads[j].issued = 1
    /\ \A i \in SettledMisses(reads) :
          reads[i].value # <<>> => ReadKey(reads[i]) \in DOMAIN cache
    /\ \A k \in DOMAIN cache :
          /\ Writers(k) # {}
          /\ \E w \in {LastWriter(k)} :
                cache[k] = [data |-> reads[w].value, timestamp |-> reads[w].doneAt,
                            ttl |-> defaultTTL]

\* two overlapping calls for a cold key both returned records, the one called first
\* settling last and at a later time: the entry carries its time
C13_Witness ==
    \E i, j \in 1..Len(reads) :
        /\ i < j
        /\ Overlap(i, j)
        /\ reads[i].entry = None
        /\ reads[i].value # <<>> /\ reads[j].value # <<>>
        /\ reads[i].doneNo > reads[j].doneNo
        /\ reads[i].doneAt > reads[j].doneAt
        /\ cache[ReadKey(reads[i])].timestamp = reads[i].doneAt

\* an entry is well formed: it has a title link whose text holds the separator
WellFormed(article) ==
    article.title # None /\ \E i \in 1..Len(article.title[1]) : article.title[1][i] = "/"

Permute(s, pi) == [i \in 1..Len(s) |-> s[pi[i]]]

\* C15: of a document of N well-formed entries parseTrendingHTML returns N records,
\* the i-th being the record of the i-th entry, and of the same entries in another
\* order it returns the same records in that order: nothing is sorted or left out
C15_DocumentOrder ==
    (parsed.state # "none" /\ \A i \in 1..Len(html) : WellFormed(html[i])) =>
        /\ parsed.state = "returned"
        /\ Len(parsed.records) = Len(html)
        /\ \A i \in 1..Len(html) : <<parsed.records[i]>> = ParseArticle(html[i]).record
        /\ \A pi \in Permutations(1..Len(html)) :
              parseTrendingHTML(Permute(html, pi)).records = Permute(parsed.records, pi)

\* a document of two well-formed entries with different titles has been parsed
C15_Witness ==
    /\ parsed.state = "returned"
    /\ Len(html) >= 2
    /\ \A i \in 1..Len(html) : WellFormed(html[i])
    /\ html[1] # html[2]
    /\ parsed.records[1] # parsed.records[2]

\* the entries of a document that are well formed, in order
WellFormedOnly(doc) == SelectSeq(doc, WellFormed)

\* C16: an entry whose title text holds no separator is left out, the records of the
\* other entries are returned in order, and no record lacks an owner or a name
C16_MalformedOmitted ==
    (parsed.state # "none" /\ \A i \in 1..Len(html) : html[i].title # None) =>
        /\ parsed.state = "returned"
        /\ parsed.records = parseTrendingHTML(WellFormedOnly(html)).records

\* C14: a finished preload has fetched each pair of a configured language with weekly
\* or monthly exactly once and nothing else, through the batch with limit 5; a request
\* that returned records has them in the cache under its own language and time range,
\* a request that failed or returned none has no entry there; preload never rejects
C14_PreloadStoresSuccesses ==
    /\ preload # "rejected"
    /\ preload = "completed" =>
          /\ concurrencyLimit = PreloadLimit
          /\ \A p \in 1..Len(Root.requests) :
                /\ attempts[p] = 1
                /\ Root.requests[p].timeRange \in {"weekly", "monthly"}
                /\ \E l \in 1..Len(languages) : Root.requests[p].language = languages[l]
          /\ \A l \in 1..Len(languages), t \in {"weekly", "monthly"} :
                Cardinality({p \in 1..Len(Root.requests) :
                                Root.requests[p] = Request(languages[l], t)}) = 1
          /\ \A p \in 1..Len(Root.requests) :
                LET entry == get(cache, Root.requests[p].language, Root.requests[p].timeRange) IN
                IF Root.results[p].repos # <<>>
                THEN entry # None /\ entry[1].data = Root.results[p].repos
                ELSE entry = None

\* C17: when a fetch made for a section on the initial load, on a manual retry or on
\* a time-range change has failed or returned no record, the section is in the Error
\* state with a retry button, if it is still in the page; a section is in the Loaded
\* state only with at least one record
C17_EmptyShowsError ==
    /\ \A i \in 1..Len(container) : container[i].state = "Loaded" => container[i].repos # <<>>
    /\ (lastUI.path # "none" /\ lastUI.repos = <<>>) =>
          LET section == QuerySection(container, lastUI.language) IN
          section # 0 => (container[section].state = "Error" /\ container[section].retry)

\* fetchMultipleConcurrent is suspended in Promise.race and has requests left to start
WindowWaiting ==
    /\ Called
    /\ Top.pc = "race"
    /\ Len(Top.results) < Len(Top.requests)

\* C18: while fetchMultipleConcurrent waits with requests left to start, the completion
\* of any request in flight lets the loop go on to start the next request: it never
\* keeps waiting on some requests when another one in flight has completed
C18_AnyCompletionAdmits ==
    [][(WindowWaiting /\ Len(stack') = Len(stack) /\ PendingIn(Top') # PendingIn(Top))
          => CanResume(stack')]_vars

\* the requests the retry round at depth d was called with are the failed ones of
\* the round before it, which had a round left
RetriesFailedOf(d) ==
    LET before == stack[d - 1] IN
    /\ before.retryCount > 0
    /\ stack[d].requests # <<>>
    /\ Len(stack[d].requests) = Cardinality({j \in 1..Len(before.results) : ~before.results[j].success})
    /\ \A k \in 1..Len(stack[d].requests) :
          LET j == stack[d].origin[k] IN
          /\ ~before.results[j].success
          /\ stack[d].requests[k] = Request(before.results[j].language, before.results[j].timeRange)
    /\ \A k, l \in 1..Len(stack[d].requests) : k < l => stack[d].origin[k] < stack[d].origin[l]

\* the retry rounds a call may run: none for retryRounds of 0 or less
Rounds == IF retryRounds > 0 THEN retryRounds ELSE 0

\* C19: a retry round of fetchWithRetry is called with exactly the requests whose
\* result in the round before had success = false; a request is fetched again only
\* after a failed result, so one that succeeded is never fetched again; no retry round
\* is run when no result failed or when retryRounds is 0; and when the call has
\* returned, every request whose last result failed has used every round
C19_RetriesExactlyFailed ==
    Called =>
      /\ \A d \in 2..Len(stack) : RetriesFailedOf(d)
      /\ Len(stack) <= Rounds + 1
      /\ \A p \in 1..Len(Root.requests) :
            /\ attempts[p] <= Rounds + 1
            /\ \A k \in 2..attempts[p] : Len(hist[p]) >= k - 1 /\ ~hist[p][k - 1].success
            /\ (Done /\ ~hist[p][Len(hist[p])].success) => attempts[p] = Rounds + 1

\* a call with a retry round has returned: one request failed and was fetched again,
\* another succeeded at once and was fetched once
C19_Witness ==
    /\ Done
    /\ retryRounds = 1
    /\ \E p, q \in 1..Len(Root.requests) :
          /\ attempts[p] = 2 /\ ~hist[p][1].success
          /\ attempts[q] = 1 /\ hist[q][1].success

\* the ttl a set call stores: its argument, or the default when none is passed
StoredTTL == IF probe'.customTTL = None THEN defaultTTL ELSE probe'.customTTL[1]

\* C20: set(language, timeRange, data, ttl) leaves under the key the whole entry
\* {data, timestamp = now, ttl}, whatever entry was there, and leaves the entries of
\* all other keys as they were; with a ttl above 0, getValid at that instant returns
\* the new data, also when the entry replaced had expired
C20_SetReplacesEntry ==
    [][probe'.op = "set" =>
          LET key == generateKey(probe'.language, probe'.timeRange) IN
          /\ DOMAIN cache' = DOMAIN cache \cup {key}
          /\ cache'[key] = [data |-> probe'.data[1], timestamp |-> now, ttl |-> StoredTTL]
          /\ \A k \in DOMAIN cache \ {key} : cache'[k] = cache[k]
          /\ StoredTTL > 0 =>
                getValid(cache', probe'.language, probe'.timeRange, None, now') = probe'.data]_vars

\* a set has replaced an expired entry that held other data, with another key in the
\* cache, and getValid returns the new data
C20_Witness ==
    /\ probe.op = "set"
    /\ probe.replaced # None
    /\ now - probe.replaced[1].timestamp >= probe.replaced[1].ttl
    /\ probe.replaced[1].ttl > 0
    /\ probe.replaced[1].data # probe.data[1]
    /\ probe.data[1] # <<>>
    /\ DOMAIN cache # {generateKey(probe.language, probe.timeRange)}
    /\ getValid(cache, probe.language, probe.timeRange, None, now) = probe.data

\* the entries of a document that have a title link
WithTitleLink(doc) == SelectSeq(doc, LAMBDA article : article.title # None)

\* C21: parseTrendingHTML raises for no document: it returns, an entry without a
\* title link is left out instead of stopping the parse, and the entries after it are
\* still returned; a document without any parsable entry gives the empty sequence
C21_ParserNeverRaises ==
    parsed.state # "none" =>
        /\ parsed.state = "returned"
        /\ (\A i \in 1..Len(html) : WellFormed(html[i]) \/ html[i].title = None) =>
              parsed.records = parseTrendingHTML(WithTitleLink(html)).records

\* the period labels of the specification, and the empty label
PeriodLabels == PeriodPhrases \cup {<<>>}

\* C22: the period stars of every entry are (N, label) for a period text
\* "<N> star(s) <label>" found by the locators in their order, as (42, "today") for
\* "42 stars today", and (0, "") when no span of the entry holds such a text; the
\* label is "today", "this week", "this month" or empty and the count is 0 or more
C22_PeriodStars ==
    parsed.state = "returned" =>
        \A i \in 1..Len(html) :
            LET element == periodStarsElement(html[i].spans) IN
            /\ parsed.records[i].period_range \in PeriodLabels
            /\ parsed.records[i].period_stars \in Nat
            /\ (element # None /\ element[1].text = <<"4", "2", " ", "s", "t", "a", "r", "s", " ", "t", "o", "d", "a", "y">>) =>
                  /\ parsed.records[i].period_stars = 42
                  /\ parsed.records[i].period_range = <<"t", "o", "d", "a", "y">>
            /\ (\A k \in 1..Len(html[i].spans) : periodStarsMatch(html[i].spans[k].text) = None) =>
                  /\ parsed.records[i].period_stars = 0
                  /\ parsed.records[i].period_range = <<>>

\* the step is a click on the retry button of section i
RetryClicked(i) ==
    /\ i \in 1..Len(container)
    /\ container[i].state = "Error"
    /\ clicks' = clicks + 1
    /\ fetches' = Append(fetches, SectionFetch("retry", container[i].language, "daily"))

\* the step changes no section but section i, which goes to one of the states
OnlySectionChanges(i, states) ==
    /\ Len(container') = Len(container)
    /\ container'[i].state \in states
    /\ container'[i].language = container[i].language
    /\ \A j \in 1..Len(container) : j # i => container'[j] = container[j]

\* C23: a click on the retry button of a section sends one fetch, for the language
\* of that section, and puts that section alone in the Loading state; when that fetch
\* returns, that section alone changes, to Loaded or to Error, and nothing changes if
\* it has left the page; every other section keeps its state and its records, also
\* while retries of other sections are in flight
C23_RetryScopedToSection ==
    [][/\ (clicks' = clicks + 1 /\ Len(fetches') > Len(fetches)
              /\ fetches'[Len(fetches')].path = "retry") =>
                  \E i \in 1..Len(container) : RetryClicked(i) /\ OnlySectionChanges(i, {"Loading"})
       /\ (Len(fetches') < Len(fetches) /\ lastUI'.path = "retry") =>
                  IF \A i \in 1..Len(container) : container[i].language # lastUI'.language
                  THEN container' = container
                  ELSE \E i \in 1..Len(container) :
                          /\ container[i].language = lastUI'.language
                          /\ OnlySectionChanges(i, {"Loaded", "Error"})]_vars

\* the names in a list of languages
NamesOf(list) == {list[i] : i \in 1..Len(list)}

\* the sections of the page c that were made for language
SectionsOf(c, language) == {i \in 1..Len(c) : c[i].language = language}

\* C24: a save of the settings that changes the selection sends one daily fetch for
\* each language added and no other fetch, removes the sections of the languages
\* removed, leaves the sections of the languages kept as they are, and keeps the
\* Overall section in the page and null first in the list of languages
C24_SaveUpdatesOnlyChanges ==
    [][languages' # languages =>
          LET old == NamesOf(Tail(languages))
              new == NamesOf(Tail(languages'))
              sent == [i \in 1..(Len(fetches') - Len(fetches)) |-> fetches'[Len(fetches) + i]]
          IN /\ languages'[1] = Null
             /\ Len(fetches') >= Len(fetches)
             /\ SubSeq(fetches', 1, Len(fetches)) = fetches
             /\ Len(sent) = Cardinality(new \ old)
             /\ \A l \in new \ old : \E i \in 1..Len(sent) :
                    sent[i].language = l /\ sent[i].timeRange = "daily"
             /\ \A l \in old \ new : SectionsOf(container', l) = {}
             /\ \A l \in (old \cap new) \cup {Null} :
                    [i \in SectionsOf(container, l) |-> container[i]]
                       = [i \in SectionsOf(container, l) |->
                             container'[CHOOSE j \in 1..Len(container') :
                                           \/ container'[j] = container[i]
                                           \/ \A k \in 1..Len(container') : container'[k] # container[i]]]]_vars

C26_SuccessNeverLost ==
    Done =>
        /\ \A p \in 1..Len(hist) :
              (\E k \in 1..Len(hist[p]) : hist[p][k].success) => Root.results[p].success
        /\ SuccessesOf(Root.results) >= Cardinality({p \in 1..Len(hist) : hist[p][1].success})

\* C27: a set for one pair of subject and time range changes neither what get nor
\* what getValid returns for any pair that differs from it in subject or in time
\* range, null and every name a user can select being subjects
C27_PairsShareNoEntry ==
    [][probe'.op = "set" =>
          \A pair \in Pairs :
              (pair.language # probe'.language \/ pair.timeRange # probe'.timeRange) =>
                  /\ get(cache', pair.language, pair.timeRange)
                        = get(cache, pair.language, pair.timeRange)
                  /\ getValid(cache', pair.language, pair.timeRange, None, now')
                        = getValid(cache, pair.language, pair.timeRange, None, now)]_vars

\* a time-range update of the section of language is in flight
UpdateInFlight(language) ==
    \E f \in 1..Len(fetches) : fetches[f].path = "range" /\ fetches[f].language = language

\* C28: a section that shows records, with no time-range update of it in flight,
\* shows the records obtained for the time range that sectionTimeRanges holds for it,
\* also after two time-range changes whose responses came in either order
C28_ShowsSelectedRange ==
    \A i \in 1..Len(container) :
        (container[i].state = "Loaded" /\ ~UpdateInFlight(container[i].language)) =>
            container[i].obtainedFor = sectionTimeRanges[container[i].dataLanguage]

\* displayTrendingRepos and what can run while its daily fetches are in flight: the
\* completion callbacks in every order, and the retry clicks on sections that failed
NextDisplay == Display \/ SectionSettle \/ RetryClick

SpecDisplay == InitUI /\ [][NextDisplay]_vars

\* daily fetches of displayTrendingRepos that have not completed
InitialInFlight == {f \in 1..Len(fetches) : fetches[f].path = "initial"}

\* C29: a call of displayTrendingRepos sets the timer of the preload once, when the
\* daily fetch of every language it started with has completed, and not before, in
\* whatever order they complete
C29_PreloadScheduledOnce ==
    /\ loads.timers <= 1
    /\ loads.timers = 1 =>
          /\ InitialInFlight = {}
          /\ loads.completedLoads = loads.totalLanguages
    /\ (loads.totalLanguages > 0 /\ InitialInFlight = {}) => loads.timers = 1
    /\ loads.completedLoads + Cardinality(InitialInFlight) = loads.totalLanguages

\* the timer is set on the completion of the first language's fetch, which came last
C29_Witness ==
    /\ loads.timers = 1
    /\ loads.totalLanguages = 2
    /\ lastUI.path = "initial"
    /\ lastUI.language = Null


\* the state of the i-th section of the page changes in this step from one state to another
Moves(i, from, to) ==
    /\ i <= Len(container')
    /\ container[i].state = from
    /\ container'[i].state = to

\* C30, first part: once the clicks have been made and the requests have settled, no
\* section of the page is left in the Loading state
C30_ReachesLoadedOrError == <>[](\A i \in 1..Len(container) : container[i].state # "Loading")

\* C30, second part: while the settings are not saved (the sections keep their
\* places), a section changes state only from Loading to Loaded on a fetch that
\* returned records, from Loading to Error on a fetch that returned none, or from
\* Error to Loading on a retry click
C30_OnlyTransitions ==
    [][languages' = languages =>
          \A i \in 1..Len(container) :
              (i <= Len(container') /\ container'[i].state # container[i].state) =>
                 \/ Moves(i, "Loading", "Loaded") /\ lastUI'.path # "none" /\ lastUI'.repos # <<>>
                 \/ Moves(i, "Loading", "Error") /\ lastUI'.path # "none" /\ lastUI'.repos = <<>>
                 \/ Moves(i, "Error", "Loading") /\ RetryClicked(i)]_vars

\* C30: every section that enters Loading eventually reaches Loaded or Error while it
\* remains in the page, and the only transitions are Loading -> Loaded on a non-empty
\* fetch, Loading -> Error on a failed or empty fetch, and Error -> Loading on a retry
\* click
C30_LoadingSettles == C30_OnlyTransitions /\ C30_ReachesLoadedOrError

=============================================================================
